---- MODULE Spec2Model ----
(***************************************************************************)
(* Model of fixme_fail/main.py: the pre-commit hook that blocks a commit   *)
(* to a protected branch when the staged diff holds the marker FIXME.      *)
(*                                                                         *)
(* Text is a sequence of one-character strings, so that split, join,       *)
(* strip and the grep pattern are computed character by character.         *)
(* An optional value (Python's None or a value) is a record                *)
(* [some |-> BOOLEAN, val |-> ...].                                         *)
(***************************************************************************)
EXTENDS Integers, Sequences, FiniteSets, TLC

VARIABLES
    argv,           \* the values of the -b/--branch options, in order
    head,           \* what `git symbolic-ref HEAD` finds: [ok, name, code]
    diff,           \* the lines of `git diff --cached`
    gitDiffStatus,  \* the exit status of `git diff --cached`
    pc,             \* where main (or the run_cmd caller) stands
    protected,      \* main's frozenset
    onBranch,       \* what is_on_branch returned
    hasFixme,       \* what has_fixme_comments returned
    symrefCalls,    \* invocations of the symbolic-ref command
    diffCalls,      \* invocations of the diff-and-filter command
    stdout,         \* what the hook itself printed
    exitCode,       \* the process exit status
    environ,        \* os.environ
    call,           \* the arguments of a direct run_cmd call
    result          \* what that call produced

vars == <<argv, head, diff, gitDiffStatus, pc, protected, onBranch, hasFixme,
          symrefCalls, diffCalls, stdout, exitCode, environ, call, result>>

\* ------------------------------------------------------------------ bounds

MaxArgs == 2        \* -b/--branch options on the command line
MaxLines == 2       \* lines of the staged diff
MaxSegs == 2        \* '/'-separated segments of the current branch's name

\* -------------------------------------------------------------------- text

None == [some |-> FALSE, val |-> <<>>]
Some(v) == [some |-> TRUE, val |-> v]

Whitespace == {" ", "\n", "\t"}

\* run_cmd returning the captured text as the child wrote it.
MutNoStrip(s) == s

RECURSIVE RStrip(_)
RStrip(s) ==
    IF s = <<>> THEN <<>>
    ELSE IF s[Len(s)] \in Whitespace THEN RStrip(SubSeq(s, 1, Len(s) - 1))
    ELSE s

RECURSIVE LStrip(_)
LStrip(s) ==
    IF s = <<>> THEN <<>>
    ELSE IF Head(s) \in Whitespace THEN LStrip(Tail(s))
    ELSE s

Strip(s) == LStrip(RStrip(s))

RECURSIVE SplitRec(_, _, _, _)
SplitRec(s, sep, cur, acc) ==
    IF s = <<>> THEN Append(acc, cur)
    ELSE IF Head(s) = sep THEN SplitRec(Tail(s), sep, <<>>, Append(acc, cur))
    ELSE SplitRec(Tail(s), sep, Append(cur, Head(s)), acc)

Split(s, sep) == SplitRec(s, sep, <<>>, <<>>)

RECURSIVE Join(_, _)
Join(sep, chunks) ==
    IF chunks = <<>> THEN <<>>
    ELSE IF Len(chunks) = 1 THEN chunks[1]
    ELSE chunks[1] \o <<sep>> \o Join(sep, Tail(chunks))

RECURSIVE Unlines(_)
Unlines(lines) ==
    IF lines = <<>> THEN <<>>
    ELSE Head(lines) \o <<"\n">> \o Unlines(Tail(lines))

Range(f) == {f[i] : i \in DOMAIN f}

\* ------------------------------------------------------------ run_cmd
\* The child is given by how it ends: [timedOut, returncode, stdout, stderr].
\* `text` only chooses between str and bytes for the two streams, which are
\* sequences of characters here either way.

Truthy(opt) == opt.some /\ opt.val # <<>>

UpdatedEnv(env, extra_env) ==
    [k \in (DOMAIN env) \cup (DOMAIN extra_env) |->
        IF k \in DOMAIN extra_env THEN extra_env[k] ELSE env[k]]

ChildEnv(env, extra_env) ==
    LET updated_env == IF Truthy(extra_env) THEN UpdatedEnv(env, extra_env.val)
                       ELSE env
    IN  IF extra_env.some THEN extra_env.val ELSE env

NoCmd == [isStr |-> FALSE, text |-> ""]

Shell(cmd) == cmd.isStr

Getcwd == <<"/", "w", "/">>

Absolute(path) == IF path # <<>> /\ path[1] = "/" THEN path ELSE Getcwd \o path

CwdArg(cwd) ==
    IF cwd.some /\ cwd.val.isPath
    THEN Some([isPath |-> FALSE, text |-> Absolute(cwd.val.text)])
    ELSE cwd

Completed(proc, capture_output) ==
    [returncode |-> proc.returncode,
     stdout |-> IF capture_output THEN Some(proc.stdout) ELSE None,
     stderr |-> IF capture_output THEN Some(proc.stderr) ELSE None]

Returned(out, err) ==
    [raised |-> "no", returncode |-> 0, cmd |-> NoCmd, output |-> None,
     stderr |-> None, stdout_ret |-> out, stderr_ret |-> err]

Raised(kind, returncode, cmd, output, err) ==
    [raised |-> kind, returncode |-> returncode, cmd |-> cmd, output |-> output,
     stderr |-> err, stdout_ret |-> None, stderr_ret |-> None]

RunCmd(cmd, capture_output, proc) ==
    IF proc.timedOut THEN Raised("TimeoutExpired", 0, cmd, None, None)
    ELSE LET p == Completed(proc, capture_output)
         IN  IF p.returncode # 0
             THEN Raised("CalledProcessError", p.returncode, cmd, p.stdout, p.stderr)
             ELSE IF capture_output
             THEN Returned(Some(RStrip(p.stdout.val)), Some(RStrip(p.stderr.val)))
             ELSE Returned(None, None)

\* ------------------------------------------------- the commands of the hook

RefPrefix == <<"r", "e", "f", "s", "/", "h", "e", "a", "d", "s", "/">>
FatalMsg == <<"f", "a", "t", "a", "l", "\n">>

Exited(returncode, out, err) ==
    [timedOut |-> FALSE, returncode |-> returncode, stdout |-> out, stderr |-> err]

GitSymbolicRef(h) ==
    IF h.ok THEN Exited(0, RefPrefix \o h.name \o <<"\n">>, <<>>)
    ELSE Exited(h.code, <<>>, FatalMsg)

GitDiffCached(lines, status) ==
    IF status = 0 THEN Exited(0, Unlines(lines), <<>>)
    ELSE Exited(status, <<>>, FatalMsg)

Marker == <<"f", "i", "x", "m", "e">>

Lower(c) ==
    CASE c = "F" -> "f" [] c = "I" -> "i" [] c = "X" -> "x"
      [] c = "M" -> "m" [] c = "E" -> "e" [] OTHER -> c

MarkerAt(line, j) ==
    /\ j + Len(Marker) - 1 <= Len(line)
    /\ \A k \in 1..Len(Marker) : Lower(line[j + k - 1]) = Marker[k]

LineMatches(line) ==
    \E i \in 1..Len(line) :
        /\ line[i] = "+"
        /\ \E j \in (i + 1)..Len(line) : MarkerAt(line, j)

InputLines(text) ==
    IF text = <<>> THEN <<>>
    ELSE LET parts == Split(text, "\n")
         IN  IF parts[Len(parts)] = <<>> THEN SubSeq(parts, 1, Len(parts) - 1)
             ELSE parts

Grep(text) ==
    LET found == SelectSeq(InputLines(text), LineMatches)
    IN  Exited(IF found = <<>> THEN 1 ELSE 0, Unlines(found), <<>>)

DiffGrepOrTrue(lines, status) ==
    LET git == GitDiffCached(lines, status)
        grep == Grep(git.stdout)
        pipeline == Exited(grep.returncode, grep.stdout, git.stderr \o grep.stderr)
    IN  IF pipeline.returncode # 0
        THEN Exited(0, pipeline.stdout, pipeline.stderr)
        ELSE pipeline

SymrefCmd == [isStr |-> TRUE, text |-> "git symbolic-ref HEAD"]
DiffCmd ==
    [isStr |-> TRUE, text |-> "git diff --cached | grep -iE \"\\+.*?FIXME\" || true"]

\* ------------------------------------------------------ is_on_branch

\* is_on_branch letting the failed lookup propagate.
MutLookupRaises == [raised |-> TRUE, value |-> FALSE]

LookupFailed == [raised |-> FALSE, value |-> FALSE]

\* is_on_branch keeping only the last path segment of the reference.
MutLastSegment(ref_name) ==
    LET chunks == Split(Strip(ref_name), "/")
    IN  chunks[Len(chunks)]

BranchName(ref_name) ==
    LET chunks == Split(Strip(ref_name), "/")
    IN  Join("/", SubSeq(chunks, 3, Len(chunks)))

IsOnBranch(prot, h) ==
    LET r == RunCmd(SymrefCmd, TRUE, GitSymbolicRef(h))
    IN  IF r.raised = "CalledProcessError" THEN LookupFailed
        ELSE IF r.raised # "no" THEN [raised |-> TRUE, value |-> FALSE]
        ELSE [raised |-> FALSE, value |-> BranchName(r.stdout_ret.val) \in prot]

\* ------------------------------------------------- has_fixme_comments

RED == <<"ESC[0;31m">>
NC == <<"ESC[0m">>

ErrorText ==
    RED \o <<"Error: Found FIXME in attempted commit. \n",
             "Please remove all occurrences of FIXME before committing.">>
        \o NC \o <<"\n">>

PrintOf(s) == s \o <<"\n">>

\* has_fixme_comments printing what the filter found even when it found nothing.
MutPrintAlways(lines, status) ==
    LET r == RunCmd(DiffCmd, TRUE, DiffGrepOrTrue(lines, status))
    IN  [raised |-> FALSE, value |-> r.stdout_ret.val # <<>>,
         printed |-> PrintOf(r.stdout_ret.val)]

HasFixmeComments(lines, status) ==
    LET r == RunCmd(DiffCmd, TRUE, DiffGrepOrTrue(lines, status))
    IN  IF r.raised # "no" THEN [raised |-> TRUE, value |-> FALSE, printed |-> <<>>]
        ELSE IF r.stdout_ret.val # <<>>
        THEN [raised |-> FALSE, value |-> TRUE,
              printed |-> PrintOf(ErrorText) \o PrintOf(r.stdout_ret.val)]
        ELSE [raised |-> FALSE, value |-> FALSE, printed |-> <<>>]

\* --------------------------------------------------------------- main

S_master == <<"m", "a", "s", "t", "e", "r">>
S_main == <<"m", "a", "i", "n">>
S_x == <<"x">>

DefaultBranches == <<S_master, S_main>>

ArgsBranch(av) == IF av = <<>> THEN None ELSE Some(av)

\* main adding the given branches to the defaults instead of replacing them.
MutKeepDefaults(av) == Range(av) \cup Range(DefaultBranches)

ProtectedSet(av) ==
    LET branch == ArgsBranch(av)
    IN  Range(IF Truthy(branch) THEN branch.val ELSE DefaultBranches)

\* main scanning the diff whatever the branch check said.
MutScanAlways(on_branch) == TRUE

ScanNeeded(on_branch) == on_branch

ParseArgs ==
    /\ pc = "start"
    /\ protected' = ProtectedSet(argv)
    /\ pc' = "parsed"
    /\ UNCHANGED <<argv, head, diff, gitDiffStatus, onBranch, hasFixme,
                   symrefCalls, diffCalls, stdout, exitCode, environ, call, result>>

CallIsOnBranch ==
    /\ pc = "parsed"
    /\ LET r == IsOnBranch(protected, head)
       IN  /\ onBranch' = r.value
           /\ pc' = IF r.raised THEN "raised" ELSE "checked"
           /\ exitCode' = IF r.raised THEN 1 ELSE exitCode
    /\ symrefCalls' = symrefCalls + 1
    /\ UNCHANGED <<argv, head, diff, gitDiffStatus, protected, hasFixme,
                   diffCalls, stdout, environ, call, result>>

CallHasFixmeComments ==
    /\ pc = "checked"
    /\ ScanNeeded(onBranch)
    /\ LET r == HasFixmeComments(diff, gitDiffStatus)
       IN  /\ hasFixme' = r.value
           /\ stdout' = stdout \o r.printed
           /\ pc' = IF r.raised THEN "raised" ELSE "scanned"
           /\ exitCode' = IF r.raised THEN 1 ELSE exitCode
    /\ diffCalls' = diffCalls + 1
    /\ UNCHANGED <<argv, head, diff, gitDiffStatus, protected, onBranch,
                   symrefCalls, environ, call, result>>

ReturnShortCircuit ==
    /\ pc = "checked"
    /\ ~ScanNeeded(onBranch)
    /\ exitCode' = 0
    /\ pc' = "done"
    /\ UNCHANGED <<argv, head, diff, gitDiffStatus, protected, onBranch, hasFixme,
                   symrefCalls, diffCalls, stdout, environ, call, result>>

ReturnAfterScan ==
    /\ pc = "scanned"
    /\ exitCode' = IF onBranch /\ hasFixme THEN 1 ELSE 0
    /\ pc' = "done"
    /\ UNCHANGED <<argv, head, diff, gitDiffStatus, protected, onBranch, hasFixme,
                   symrefCalls, diffCalls, stdout, environ, call, result>>

Next ==
    \/ ParseArgs
    \/ CallIsOnBranch
    \/ CallHasFixmeComments
    \/ ReturnShortCircuit
    \/ ReturnAfterScan

\* ------------------------------------------------------------- inputs

S_rel == <<"r", "e", "l">>

Segs == {S_main, S_x, S_rel}

SeqsUpTo(S, n) == UNION {[1..k -> S] : k \in 0..n}

BranchNames == {Join("/", segs) : segs \in SeqsUpTo(Segs, MaxSegs) \ {<<>>}}

FlagNames ==
    {S_main, S_master, S_x, S_main \o <<"/">> \o S_x, S_x \o <<"/">> \o S_main}

Heads ==
    {[ok |-> TRUE, name |-> n, code |-> 0] : n \in BranchNames}
        \cup {[ok |-> FALSE, name |-> <<>>, code |-> c] : c \in {1, 128}}

L_addFIXME == <<"+", "#", " ", "F", "I", "X", "M", "E">>
L_addfixme == <<"+", "f", "i", "x", "m", "e">>
L_addFixMe == <<"+", " ", "F", "i", "x", "M", "e", ":">>
L_addPlain == <<"+", "x", "=", "1">>
L_delFIXME == <<"-", "#", " ", "F", "I", "X", "M", "E">>
L_delPlus == <<"-", "a", "+", "b", " ", "F", "I", "X", "M", "E">>
L_ctxPlus == <<" ", "i", "+", "+", " ", "f", "i", "x", "m", "e">>
L_delAfter == <<"-", "F", "I", "X", "M", "E", "+">>

SampleLines ==
    {L_addFIXME, L_addfixme, L_addFixMe, L_addPlain, L_delFIXME, L_delPlus,
     L_ctxPlus, L_delAfter}

Environ0 == [PATH |-> "/usr/bin", HOME |-> "/root"]

NoProc == [timedOut |-> FALSE, returncode |-> 0, stdout |-> <<>>, stderr |-> <<>>]
NoCall ==
    [cmd |-> NoCmd, cwd |-> None, capture_output |-> FALSE, text |-> TRUE,
     extra_env |-> None, hasTimeout |-> FALSE, proc |-> NoProc, environ |-> Environ0]
NoResult ==
    [child_env |-> Environ0, shell |-> FALSE, cwd |-> None, text |-> TRUE,
     out |-> Returned(None, None)]

InitMain ==
    /\ pc = "start"
    /\ protected = {}
    /\ onBranch = FALSE
    /\ hasFixme = FALSE
    /\ symrefCalls = 0
    /\ diffCalls = 0
    /\ stdout = <<>>
    /\ exitCode = 0
    /\ environ = Environ0
    /\ call = NoCall
    /\ result = NoResult

\* Branch handling: every command line and every current branch, few diffs.
Init ==
    /\ argv \in SeqsUpTo(FlagNames, MaxArgs)
    /\ head \in Heads
    /\ diff \in {<<>>, <<L_addFIXME>>, <<L_addPlain>>}
    /\ gitDiffStatus \in {0, 128}
    /\ InitMain

Spec == Init /\ [][Next]_vars

\* Diff handling: every staged diff, few command lines and branches.
InitDiff ==
    /\ argv \in {<<>>, <<S_x>>}
    /\ head \in {h \in Heads : ~h.ok \/ h.name \in {S_main, S_x}}
    /\ diff \in SeqsUpTo(SampleLines, MaxLines)
    /\ gitDiffStatus \in {0, 128}
    /\ InitMain

SpecDiff == InitDiff /\ [][Next]_vars

\* ---------------------------------------------- a direct call of run_cmd

RunCmdCall ==
    /\ pc = "run_start"
    /\ result' = [child_env |-> ChildEnv(environ, call.extra_env),
                  shell |-> Shell(call.cmd),
                  cwd |-> CwdArg(call.cwd),
                  text |-> call.text,
                  out |-> RunCmd(call.cmd, call.capture_output, call.proc)]
    /\ pc' = "run_done"
    /\ UNCHANGED <<argv, head, diff, gitDiffStatus, protected, onBranch, hasFixme,
                   symrefCalls, diffCalls, stdout, exitCode, environ, call>>

NextRun == RunCmdCall

EmptyDict == [k \in {} |-> ""]

Commands ==
    {[isStr |-> TRUE, text |-> "git status"], [isStr |-> FALSE, text |-> "git,status"]}

Cwds ==
    {None, Some([isPath |-> FALSE, text |-> <<"r">>]),
     Some([isPath |-> TRUE, text |-> <<"r">>])}

ExtraEnvs ==
    {None, Some(EmptyDict), Some([FOO |-> "1"]), Some([PATH |-> "/opt/bin"]),
     Some([PATH |-> "/opt/bin", FOO |-> "1"])}

Environs == {Environ0, [PATH |-> "/bin"]}

RawOutputs ==
    {<<>>, <<"a">>, <<"a", "\n">>, <<"a", " ", "\n", "\n">>, <<" ", "a">>,
     <<"\n">>, <<"a", " ", "b", "\t">>}

Procs ==
    {Exited(c, o, e) : c \in {0, 1, 2}, o \in RawOutputs, e \in {<<>>, FatalMsg}}
        \cup {[timedOut |-> TRUE, returncode |-> 0, stdout |-> <<>>, stderr |-> <<>>]}

InitRun ==
    /\ argv = <<>>
    /\ head = [ok |-> FALSE, name |-> <<>>, code |-> 1]
    /\ diff = <<>>
    /\ gitDiffStatus = 0
    /\ pc = "run_start"
    /\ protected = {}
    /\ onBranch = FALSE
    /\ hasFixme = FALSE
    /\ symrefCalls = 0
    /\ diffCalls = 0
    /\ stdout = <<>>
    /\ exitCode = 0
    /\ environ \in Environs
    /\ call \in {c \in [cmd : Commands, cwd : Cwds, capture_output : BOOLEAN,
                        text : BOOLEAN, extra_env : ExtraEnvs, hasTimeout : BOOLEAN,
                        proc : Procs, environ : Environs] :
                    /\ c.environ = environ
                    /\ c.proc.timedOut => c.hasTimeout}
    /\ result = NoResult

SpecRun == InitRun /\ [][NextRun]_vars

\* ------------------------------------------------------------- claims

OnProtected == head.ok /\ head.name \in protected

IsAdded(line) == line # <<>> /\ line[1] = "+"

ContainsFixme(line) ==
    \E j \in 1..(Len(line) - 4) : [k \in 1..5 |-> Lower(line[j + k - 1])] = Marker

AddedFixme == \E i \in DOMAIN diff : IsAdded(diff[i]) /\ ContainsFixme(diff[i])

\* C1: main returns 1 exactly when the current branch is in the protected set
\* and some added line of the staged diff contains FIXME in any letter-casing;
\* whenever else it returns, it returns 0. (Stated for the runs in which
\* `git diff --cached` itself succeeded.)
CexC1 ==
    (pc = "done" /\ gitDiffStatus = 0) =>
        /\ exitCode \in {0, 1}
        /\ exitCode = 1 <=> (OnProtected /\ AddedFixme)

\* C2: when the marker occurs only on lines that do not begin with '+',
\* has_fixme_comments returns false and the commit on a protected branch is
\* allowed (exit 0).
CexC2 ==
    (pc = "done" /\ OnProtected /\ gitDiffStatus = 0 /\ ~AddedFixme) =>
        (hasFixme = FALSE /\ exitCode = 0)

\* C3: the branch check precedes every diff scan, and when the current branch
\* is not in the protected set main returns 0 with zero invocations of the
\* diff-and-filter command, whatever is staged.
ThmC3 ==
    /\ diffCalls > 0 => (symrefCalls > 0 /\ OnProtected)
    /\ (pc = "done" /\ head.ok /\ head.name \notin protected) =>
            (exitCode = 0 /\ diffCalls = 0)
    /\ (head.ok /\ head.name \notin protected) => pc # "raised"

WitC3 ==
    /\ pc = "done"
    /\ head.ok
    /\ head.name \notin protected
    /\ diff = <<L_addFIXME>>
    /\ symrefCalls = 1
    /\ diffCalls = 0
    /\ exitCode = 0

\* C4: when the symbolic-reference lookup exits non-zero, is_on_branch returns
\* false without raising and main returns 0 without scanning the diff, for any
\* staged content and any protected set.
ThmC4 ==
    ~head.ok =>
        /\ pc # "raised"
        /\ diffCalls = 0
        /\ pc \in {"checked", "done"} => onBranch = FALSE
        /\ pc = "done" => exitCode = 0

WitC4 ==
    /\ pc = "done"
    /\ ~head.ok
    /\ head.code = 128
    /\ symrefCalls = 1
    /\ diff = <<L_addFIXME>>
    /\ exitCode = 0

\* C5: on a protected branch a failure of the staged-diff command is fatal:
\* main never returns 0 in that case.
CexC5 == ~(pc = "done" /\ exitCode = 0 /\ OnProtected /\ gitDiffStatus # 0)

\* C6: the protected set is exactly {master, main} when no branch option is
\* given, and exactly the set of the given names otherwise, each once and with
\* no default retained.
ThmC6 ==
    pc # "start" =>
        protected = IF Len(argv) = 0 THEN {S_master, S_main}
                    ELSE {argv[i] : i \in 1..Len(argv)}

WitC6 ==
    /\ pc = "parsed"
    /\ argv = <<S_x, S_x>>
    /\ Cardinality(protected) = 1
    /\ S_main \notin protected

\* C7: for the reference refs/heads/<name>, <name> holding any number of '/',
\* is_on_branch returns true if and only if exactly <name> is in the protected
\* set.
ThmC7 ==
    (head.ok /\ pc \in {"checked", "scanned", "done"}) =>
        (onBranch <=> head.name \in protected)

WitC7 ==
    /\ pc = "checked"
    /\ head.ok
    /\ head.name = S_x \o <<"/">> \o S_main
    /\ protected = {S_x \o <<"/">> \o S_main, S_main}
    /\ onBranch

\* C8: main writes to standard output if and only if it blocks the commit; what
\* it writes is the red header followed by the lines the filter matched, and a
\* run that returns 0 writes nothing.
ThmC8 ==
    /\ stdout # <<>> => (pc \in {"scanned", "done"} /\ hasFixme)
    /\ pc = "done" => (stdout # <<>> <=> exitCode = 1)
    /\ (pc = "done" /\ exitCode = 1) =>
            /\ SubSeq(stdout, 1, 1) = RED
            /\ stdout = PrintOf(ErrorText)
                            \o PrintOf(RStrip(Unlines(SelectSeq(diff, LineMatches))))

WitC8 ==
    /\ pc = "done"
    /\ exitCode = 1
    /\ diff = <<L_addPlain, L_addFixMe>>
    /\ stdout = PrintOf(ErrorText) \o PrintOf(L_addFixMe)

IsRStripOf(r, s) ==
    /\ r.some
    /\ Len(r.val) <= Len(s)
    /\ SubSeq(s, 1, Len(r.val)) = r.val
    /\ \A i \in (Len(r.val) + 1)..Len(s) : s[i] \in Whitespace
    /\ r.val = <<>> \/ r.val[Len(r.val)] \notin Whitespace

\* C9: run_cmd's outcome follows the exit status: non-zero raises the
\* command-failed error with that code, the command and the captured streams
\* (absent without capture); zero never raises and returns the two streams
\* without their trailing whitespace under capture, (None, None) otherwise.
ThmC9 ==
    (pc = "run_done" /\ ~call.proc.timedOut) =>
        LET out == result.out
            captured(raw) == IF call.capture_output THEN Some(raw) ELSE None
        IN  /\ call.proc.returncode # 0 =>
                /\ out.raised = "CalledProcessError"
                /\ out.returncode = call.proc.returncode
                /\ out.cmd = call.cmd
                /\ out.output = captured(call.proc.stdout)
                /\ out.stderr = captured(call.proc.stderr)
            /\ call.proc.returncode = 0 =>
                /\ out.raised = "no"
                /\ call.capture_output =>
                    /\ IsRStripOf(out.stdout_ret, call.proc.stdout)
                    /\ IsRStripOf(out.stderr_ret, call.proc.stderr)
                /\ ~call.capture_output =>
                    (out.stdout_ret = None /\ out.stderr_ret = None)

WitC9 ==
    /\ pc = "run_done"
    /\ call.capture_output
    /\ call.proc.returncode = 0
    /\ call.proc.stdout = <<"a", " ", "\n", "\n">>
    /\ result.out.stdout_ret = Some(<<"a">>)
    /\ result.out.raised = "no"

\* C10: the child's environment is the process environment when no or an empty
\* set of extra variables is given, and exactly the given dictionary when a
\* non-empty one is; the process's own environment stays as it was.
CexC10 ==
    pc = "run_done" =>
        /\ result.child_env =
                IF ~call.extra_env.some \/ DOMAIN call.extra_env.val = {}
                THEN call.environ ELSE call.extra_env.val
        /\ environ = call.environ

====
